---- MODULE Spec2Model ----
(***************************************************************************)
(* Model of cloud/amazon/ec2_route_tables.py: one invocation of main()     *)
(* reconciles the route tables of one VPC against the route_tables         *)
(* parameter.  Every remote call of main() is one step; the provider       *)
(* (boto's VPC connection) is modelled by the `live' sequence of route     *)
(* tables and applies each mutating call as issued.  Any remote call may   *)
(* instead raise, which main() never catches.                              *)
(***************************************************************************)
EXTENDS Integers, Sequences, FiniteSets, TLC

\* ---------------------------------------------------------------- bounds
MaxRuns == 2        \* consecutive invocations with the same parameters
MaxDesired == 2     \* length of the route_tables parameter
MaxLive == 2        \* non-main route tables present before the first run

\* ------------------------------------------------------- values and shapes
None == "None"

Truthy(x) == x # None

Route(dest, gw) == [dest |-> dest, gw |-> gw]

TableSpec(subnets, routes) == [kind |-> "spec", subnets |-> subnets, routes |-> routes]

\* an element of route_tables that is not a dictionary with subnets/routes
BadSpec == [kind |-> "bad", subnets |-> <<>>, routes |-> <<>>]

LiveRoute(cidr, gw, inst) ==
    [destination_cidr_block |-> cidr, gateway_id |-> gw, instance_id |-> inst]

LocalRoute == LiveRoute("vpc", "local", None)

Association(id, subnet, main) == [id |-> id, subnet_id |-> subnet, main |-> main]

\* the subnets of the VPC (fixed for the run)
VpcSubnets == << [id |-> "s1", cidr_block |-> "c1"], [id |-> "s2", cidr_block |-> "c2"] >>

\* desired tables the route_tables parameter is drawn from
DesiredShapes ==
    { TableSpec(<<"c1">>, <<Route("d0", "igw")>>),
      TableSpec(<<>>, <<Route("d0", "igw"), Route("d1", "i1")>>),
      TableSpec(<<>>, <<Route("d0", "igw"), Route("d0", "igw")>>),
      TableSpec(<<"c9">>, <<Route("d0", "i1")>>),
      BadSpec }

\* non-main live tables (id and association ids are set by Numbered)
LiveShapes ==
    { [routes |-> <<LocalRoute, LiveRoute("d0", "igw1", None)>>, subnets |-> <<"s1">>],
      [routes |-> <<LocalRoute, LiveRoute("d1", None, "i1"), LiveRoute("d0", "igw1", None)>>,
       subnets |-> <<>>],
      [routes |-> <<LocalRoute, LiveRoute("d0", None, None)>>, subnets |-> <<"s1">>],
      [routes |-> <<LocalRoute, LiveRoute("d0", "igw1", "i9")>>, subnets |-> <<"s2">>] }

SeqsUpTo(S, n) == UNION { [1..k -> S] : k \in 0..n }

\* the VPC's main table: id 1, its main association and one explicit one
MainTable ==
    [id |-> 1, routes |-> <<LocalRoute>>,
     associations |-> <<Association(101, None, TRUE), Association(102, "s2", FALSE)>>]

\* live table number k (k >= 2) built from a shape
Numbered(shape, k) ==
    [id |-> k, routes |-> shape.routes,
     associations |-> [j \in 1..Len(shape.subnets) |->
                          Association(100 * k + j, shape.subnets[j], FALSE)]]

LiveStates(n) ==
    { <<MainTable>> \o [k \in 1..Len(s) |-> Numbered(s[k], k + 1)] : s \in SeqsUpTo(LiveShapes, n) }

\* ------------------------------------------------------------ the provider
IsMain(table) == \E j \in 1..Len(table.associations) : table.associations[j].main

RemoveAt_keep(s, i) == s

RemoveAt(s, i) == SubSeq(s, 1, i - 1) \o SubSeq(s, i + 1, Len(s))

\* create_route_table: a new table holding only the local route
ProviderCreateTable(tables, id) ==
    Append(tables, [id |-> id, routes |-> <<LocalRoute>>, associations |-> <<>>])

ProviderCreateRoute(tables, id, cidr, gw, inst) ==
    [k \in 1..Len(tables) |->
        IF tables[k].id = id
        THEN [tables[k] EXCEPT !.routes = Append(@, LiveRoute(cidr, gw, inst))]
        ELSE tables[k]]

ProviderAssociate(tables, id, assocId, subnet) ==
    [k \in 1..Len(tables) |->
        IF tables[k].id = id
        THEN [tables[k] EXCEPT !.associations = Append(@, Association(assocId, subnet, FALSE))]
        ELSE tables[k]]

ProviderDisassociate(tables, assocId) ==
    [k \in 1..Len(tables) |->
        [tables[k] EXCEPT !.associations = SelectSeq(@, LAMBDA a : a.id # assocId)]]

ProviderDeleteTable(tables, id) == SelectSeq(tables, LAMBDA t : t.id # id)

\* ------------------------------------------------------ Identifier Resolver
\* the last subnet of the listing with the given id / address block
LastWith(subnets, key, byId) ==
    LET hits == { k \in 1..Len(subnets) :
                     IF byId THEN subnets[k].id = key ELSE subnets[k].cidr_block = key }
    IN subnets[CHOOSE k \in hits : \A m \in hits : m <= k]

\* dict(by id) merged with dict(by cidr_block); the second wins on a shared key
BuildSubnetMapper(subnets) ==
    LET ids == { subnets[k].id : k \in 1..Len(subnets) }
        cidrs == { subnets[k].cidr_block : k \in 1..Len(subnets) }
    IN [key \in ids \cup cidrs |->
           IF key \in cidrs THEN LastWith(subnets, key, FALSE) ELSE LastWith(subnets, key, TRUE)]

\* ------------------------------------------------- Route Equivalence Checker
RouteSkipped_typed(route, requested_route, gateway) ==
    IF Truthy(route.gateway_id)
    THEN \/ requested_route.gw # "igw" \/ route.gateway_id # gateway.id
         \/ route.destination_cidr_block # requested_route.dest
    ELSE IF Truthy(route.instance_id)
    THEN \/ route.instance_id # requested_route.gw
         \/ route.destination_cidr_block # requested_route.dest
    ELSE TRUE

\* the two `continue' branches of the loop body of find_matching_route
RouteSkipped(route, requested_route, gateway) ==
    IF Truthy(route.gateway_id)
       /\ (requested_route.gw # "igw" \/ route.gateway_id # gateway.id)
    THEN TRUE
    ELSE IF Truthy(route.instance_id) /\ route.instance_id # requested_route.gw
    THEN TRUE
    ELSE Truthy(route.destination_cidr_block)
         /\ route.destination_cidr_block # requested_route.dest

RECURSIVE FindRouteFrom(_, _, _, _)
FindRouteFrom(existing_routes, requested_route, gateway, i) ==
    IF i > Len(existing_routes) THEN 0
    ELSE IF RouteSkipped(existing_routes[i], requested_route, gateway)
    THEN FindRouteFrom(existing_routes, requested_route, gateway, i + 1)
    ELSE i

\* index of the first live route satisfying the requested one, 0 for None
find_matching_route(existing_routes, requested_route, subnet_mapper, gateway) ==
    FindRouteFrom(existing_routes, requested_route, gateway, 1)

\* -------------------------------------------- Association Equivalence Checker
RECURSIVE FindAssociationFrom(_, _, _, _)
FindAssociationFrom(existing_associations, requested_subnet, subnet_mapper, i) ==
    IF i > Len(existing_associations) THEN 0
    ELSE IF existing_associations[i].subnet_id \notin DOMAIN subnet_mapper THEN -1
    ELSE IF requested_subnet = subnet_mapper[existing_associations[i].subnet_id].cidr_block
    THEN i
    ELSE FindAssociationFrom(existing_associations, requested_subnet, subnet_mapper, i + 1)

\* index of the first satisfying association, 0 for None, -1 for KeyError
find_matching_association(existing_associations, requested_subnet, subnet_mapper) ==
    FindAssociationFrom(existing_associations, requested_subnet, subnet_mapper, 1)

\* ------------------------------------------------------------ Table Matcher
NonLocalRoutes_all(table) == table.routes

NonLocalRoutes(table) == SelectSeq(table.routes, LAMBDA route : route.gateway_id # "local")

\* the loop over requested_table['routes'], with its break
RECURSIVE RoutesMatchFrom(_, _, _, _, _)
RoutesMatchFrom(routes, requested_routes, subnet_mapper, gateway, i) ==
    IF i > Len(requested_routes) THEN TRUE
    ELSE IF find_matching_route(routes, requested_routes[i], subnet_mapper, gateway) = 0
    THEN FALSE
    ELSE RoutesMatchFrom(routes, requested_routes, subnet_mapper, gateway, i + 1)

\* the loop over requested_table['subnets']: "yes", "no" or "KeyError"
RECURSIVE SubnetsMatchFrom(_, _, _, _)
SubnetsMatchFrom(associations, requested_subnets, subnet_mapper, i) ==
    IF i > Len(requested_subnets) THEN "yes"
    ELSE LET found == find_matching_association(associations, requested_subnets[i],
                                                subnet_mapper)
         IN IF found = -1 THEN "KeyError"
            ELSE IF found = 0 THEN "no"
            ELSE SubnetsMatchFrom(associations, requested_subnets, subnet_mapper, i + 1)

TableMatch_counts(table, requested_table, subnet_mapper, gateway) ==
    LET routes == NonLocalRoutes(table)
    IN IF Len(requested_table.routes) # Len(routes) THEN "no"
       ELSE IF ~RoutesMatchFrom(routes, requested_table.routes, subnet_mapper, gateway, 1)
       THEN "no"
       ELSE IF Len(requested_table.subnets) # Len(table.associations) THEN "no"
       ELSE "yes"

\* one iteration of the loop of find_matching_table: "yes", "no" or "KeyError"
TableMatch(table, requested_table, subnet_mapper, gateway) ==
    LET routes == NonLocalRoutes(table)
    IN IF Len(requested_table.routes) # Len(routes) THEN "no"
       ELSE IF ~RoutesMatchFrom(routes, requested_table.routes, subnet_mapper, gateway, 1)
       THEN "no"
       ELSE IF Len(requested_table.subnets) # Len(table.associations) THEN "no"
       ELSE SubnetsMatchFrom(table.associations, requested_table.subnets, subnet_mapper, 1)

RECURSIVE FindTableFrom(_, _, _, _, _)
FindTableFrom(existing_tables, requested_table, subnet_mapper, gateway, i) ==
    IF i > Len(existing_tables) THEN 0
    ELSE LET m == TableMatch(existing_tables[i], requested_table, subnet_mapper, gateway)
         IN IF m = "KeyError" THEN -1
            ELSE IF m = "yes" THEN i
            ELSE FindTableFrom(existing_tables, requested_table, subnet_mapper, gateway, i + 1)

\* index of the first satisfying table, 0 for None, -1 for KeyError
find_matching_table(existing_tables, requested_table, subnet_mapper, gateway) ==
    FindTableFrom(existing_tables, requested_table, subnet_mapper, gateway, 1)

\* ---------------------------------------------------------------- response
format_response(route_tables) ==
    [k \in 1..Len(route_tables) |->
        [id |-> route_tables[k].id,
         routes |-> [j \in 1..Len(route_tables[k].routes) |->
                        [cidr |-> route_tables[k].routes[j].destination_cidr_block,
                         gateway_id |-> route_tables[k].routes[j].gateway_id,
                         instance_id |-> route_tables[k].routes[j].instance_id]],
         associations |-> [j \in 1..Len(route_tables[k].associations) |->
                        [subnet_id |-> route_tables[k].associations[j].subnet_id,
                         is_main |-> route_tables[k].associations[j].main]]]]

\* -------------------------------------------------------------------- state
VARIABLES
    state, route_tables, vpc_id, vpc_name, region,   \* module.params
    vpcs, gateways,                                  \* what the lookups return
    live, nextId,                                    \* the provider's route tables
    pc, failure, calls, output,                      \* position, error, remote calls, exit_json
    existing_tables, subnet_mapper,                  \* the snapshots main() takes
    old_tables, new_tables, matched_tables, ri, changed,
    di, dai, is_main,                                \* delete_tables loop
    ci, cri, csi, new_table,                         \* create_tables loop
    run, prevOutput                                  \* invocation number, previous exit_json

params == <<state, route_tables, vpc_id, vpc_name, region>>
env == <<vpcs, gateways>>
provider == <<live, nextId>>
plan == <<existing_tables, subnet_mapper, old_tables, new_tables, matched_tables, ri, changed>>
delLoop == <<di, dai, is_main>>
creLoop == <<ci, cri, csi, new_table>>
runs == <<run, prevOutput>>
vars == <<params, env, provider, pc, failure, calls, output, plan, delLoop, creLoop, runs>>

\* a remote call as issued on the connection
Call(op, table, assoc, dest, gw, inst, subnet) ==
    [op |-> op, table |-> table, assoc |-> assoc, dest |-> dest,
     gateway_id |-> gw, instance_id |-> inst, subnet_id |-> subnet]

ReadCall(op) == Call(op, 0, 0, None, None, None, None)

MutatingOps ==
    {"create_route_table", "create_route", "associate_route_table",
     "disassociate_route_table", "delete_route_table"}

NoOutput == [changed |-> FALSE, route_tables |-> <<>>, reported |-> FALSE]

\* the local variables of main() before it has set them
LocalsInit ==
    /\ pc = "start" /\ failure = None /\ calls = <<>> /\ output = NoOutput
    /\ existing_tables = <<>> /\ subnet_mapper = <<>>
    /\ old_tables = <<>> /\ new_tables = <<>> /\ matched_tables = <<>>
    /\ ri = 1 /\ changed = FALSE
    /\ di = 1 /\ dai = 1 /\ is_main = FALSE
    /\ ci = 1 /\ cri = 1 /\ csi = 1 /\ new_table = 0

ListParam(tables) == [kind |-> "list", tables |-> tables]
NoneParam == [kind |-> "none", tables |-> <<>>]
NotListParam == [kind |-> "notlist", tables |-> <<>>]

Gateway(id) == [id |-> id]

\* reconciliation inputs: a resolvable network, every desired list and live state
InitReconcile ==
    /\ state \in {"present", "absent"}
    /\ route_tables \in {ListParam(s) : s \in SeqsUpTo(DesiredShapes, MaxDesired)} \cup {NoneParam}
    /\ vpc_id = "vpc-1" /\ vpc_name = None /\ region = TRUE
    /\ vpcs = 1
    /\ gateways \in {<<>>, <<Gateway("igw1")>>}
    /\ live \in LiveStates(MaxLive)

\* configuration inputs: every selector, region and lookup outcome
InitConfig ==
    /\ state = "present"
    /\ route_tables \in {NotListParam, NoneParam, ListParam(<<>>),
                         ListParam(<<TableSpec(<<"c1">>, <<Route("d0", "igw")>>)>>)}
    /\ vpc_id \in {None, "vpc-1"} /\ vpc_name \in {None, "net"} /\ region \in BOOLEAN
    /\ vpcs \in 0..2
    /\ gateways \in {<<>>, <<Gateway("igw1")>>, <<Gateway("igw1"), Gateway("igw2")>>}
    /\ live \in LiveStates(1)

Init ==
    /\ InitReconcile \/ InitConfig
    /\ nextId = Len(live) + 1
    /\ LocalsInit
    /\ run = 1 /\ prevOutput = NoOutput

Fail(msg) == pc' = "failed" /\ failure' = msg

\* ------------------------------------------------------------------- main()
\* lines 194-196: the isinstance check on route_tables
Validate ==
    /\ pc = "start"
    /\ IF route_tables.kind = "notlist"
       THEN Fail("route tables need to be a list of dictionaries")
       ELSE pc' = "connect" /\ UNCHANGED failure
    /\ UNCHANGED <<params, env, provider, calls, output, plan, delLoop, creLoop, runs>>

\* lines 198-212: the region is required to connect
Connect ==
    /\ pc = "connect"
    /\ IF region THEN pc' = "vpc" /\ UNCHANGED failure
       ELSE Fail("VPC region must be specified.")
    /\ UNCHANGED <<params, env, provider, calls, output, plan, delLoop, creLoop, runs>>

\* lines 214-225: select the network by name or id
LookupVpc ==
    /\ pc = "vpc"
    /\ IF Truthy(vpc_name) /\ Truthy(vpc_id)
       THEN Fail("Cannot specify both vpc_name and vpc_id.") /\ UNCHANGED calls
       ELSE /\ calls' = Append(calls, ReadCall("get_all_vpcs"))
            /\ IF vpcs # 1 THEN Fail("Could not find VPC")
               ELSE pc' = "gateways" /\ UNCHANGED failure
    /\ UNCHANGED <<params, env, provider, output, plan, delLoop, creLoop, runs>>

TooManyGateways_two(gws) == Len(gws) > 2

TooManyGateways(gws) == Len(gws) > 1

\* lines 227-229: the failure message itself raises NameError (vpc is undefined)
LookupGateways ==
    /\ pc = "gateways"
    /\ calls' = Append(calls, ReadCall("get_all_internet_gateways"))
    /\ IF TooManyGateways(gateways) THEN Fail("NameError")
       ELSE pc' = "tables" /\ UNCHANGED failure
    /\ UNCHANGED <<params, env, provider, output, plan, delLoop, creLoop, runs>>

NonMainTables_all(tables) == tables

\* lines 233-236: every table without a main association
NonMainTables(tables) == SelectSeq(tables, LAMBDA table : ~IsMain(table))

FetchTables ==
    /\ pc = "tables"
    /\ calls' = Append(calls, ReadCall("get_all_route_tables"))
    /\ existing_tables' = NonMainTables(live)
    /\ pc' = "subnets"
    /\ UNCHANGED <<params, env, provider, failure, output, subnet_mapper, old_tables,
                   new_tables, matched_tables, ri, changed, delLoop, creLoop, runs>>

\* lines 239-246: the subnet lookup and the planner's initial lists
FetchSubnets ==
    /\ pc = "subnets"
    /\ calls' = calls \o <<ReadCall("get_all_subnets"), ReadCall("get_all_subnets")>>
    /\ subnet_mapper' = BuildSubnetMapper(VpcSubnets)
    /\ new_tables' = <<>> /\ matched_tables' = <<>>
    /\ old_tables' = existing_tables
    /\ ri' = 1
    /\ pc' = "plan"
    /\ UNCHANGED <<params, env, provider, failure, output, existing_tables, changed,
                   delLoop, creLoop, runs>>

IndexOfId(tables, id) ==
    IF \E k \in 1..Len(tables) : tables[k].id = id
    THEN CHOOSE k \in 1..Len(tables) :
            tables[k].id = id /\ \A m \in 1..(k - 1) : tables[m].id # id
    ELSE 0

\* the pool find_matching_table scans for the next requested table (line 248)
MatchPool == existing_tables

\* lines 247-253: one iteration of the planning loop
PlanStep ==
    /\ pc = "plan"
    /\ route_tables.kind = "none" \/ ri <= Len(route_tables.tables)
    /\ IF route_tables.kind = "none"
       THEN Fail("TypeError") /\ UNCHANGED <<old_tables, new_tables, matched_tables, ri>>
       ELSE LET requested_table == route_tables.tables[ri]
            IN IF Len(gateways) = 0
               THEN Fail("IndexError")
                    /\ UNCHANGED <<old_tables, new_tables, matched_tables, ri>>
               ELSE IF requested_table.kind = "bad" /\ MatchPool # <<>>
               THEN Fail("TypeError")
                    /\ UNCHANGED <<old_tables, new_tables, matched_tables, ri>>
               ELSE LET m == find_matching_table(MatchPool, requested_table,
                                                 subnet_mapper, gateways[1])
                    IN IF m = -1
                       THEN Fail("KeyError")
                            /\ UNCHANGED <<old_tables, new_tables, matched_tables, ri>>
                       ELSE IF m = 0
                       THEN /\ new_tables' = Append(new_tables, requested_table)
                            /\ ri' = ri + 1
                            /\ UNCHANGED <<pc, failure, old_tables, matched_tables>>
                       ELSE LET matching_table == MatchPool[m]
                                at == IndexOfId(old_tables, matching_table.id)
                            IN /\ matched_tables' = Append(matched_tables, matching_table)
                               /\ IF at = 0
                                  THEN Fail("ValueError") /\ UNCHANGED <<old_tables, ri>>
                                  ELSE /\ old_tables' = RemoveAt(old_tables, at)
                                       /\ ri' = ri + 1
                                       /\ UNCHANGED <<pc, failure>>
                               /\ UNCHANGED new_tables
    /\ UNCHANGED <<params, env, provider, calls, output, existing_tables, subnet_mapper,
                   changed, delLoop, creLoop, runs>>

Changed_new(old, new) == Len(new) > 0

\* line 255
Changed(old, new) == Len(old) > 0 \/ Len(new) > 0

PlanDone ==
    /\ pc = "plan"
    /\ route_tables.kind # "none" /\ ri > Len(route_tables.tables)
    /\ changed' = Changed(old_tables, new_tables)
    /\ pc' = "delete"
    /\ di' = 1 /\ dai' = 1 /\ is_main' = FALSE
    /\ UNCHANGED <<params, env, provider, failure, calls, output, existing_tables,
                   subnet_mapper, old_tables, new_tables, matched_tables, ri, creLoop, runs>>

\* ----------------------------------------------------------- delete_tables
\* line 258: the tables main() hands to delete_tables
TablesToDelete_all == existing_tables

TablesToDelete == old_tables

DeleteAssociation_skip ==
    /\ pc = "delete"
    /\ di <= Len(TablesToDelete)
    /\ dai <= Len(TablesToDelete[di].associations)
    /\ is_main' = (is_main \/ TablesToDelete[di].associations[dai].main)
    /\ dai' = dai + 1
    /\ UNCHANGED <<params, env, provider, pc, failure, calls, output, plan, di, creLoop, runs>>

\* lines 103-107: one association of the snapshot of table old_tables[di]
DeleteAssociation ==
    /\ pc = "delete"
    /\ di <= Len(TablesToDelete)
    /\ dai <= Len(TablesToDelete[di].associations)
    /\ LET association == TablesToDelete[di].associations[dai]
       IN IF ~association.main
          THEN /\ calls' = Append(calls, Call("disassociate_route_table", 0, association.id,
                                              None, None, None, None))
               /\ live' = ProviderDisassociate(live, association.id)
               /\ UNCHANGED is_main
          ELSE /\ is_main' = TRUE
               /\ UNCHANGED <<calls, live>>
    /\ dai' = dai + 1
    /\ UNCHANGED <<params, env, nextId, pc, failure, output, plan, di, creLoop, runs>>

DeleteTable_keep ==
    /\ pc = "delete"
    /\ di <= Len(TablesToDelete)
    /\ dai > Len(TablesToDelete[di].associations)
    /\ di' = di + 1 /\ dai' = 1 /\ is_main' = FALSE
    /\ UNCHANGED <<params, env, provider, pc, failure, calls, output, plan, creLoop, runs>>

\* lines 108-109: delete the table unless one of its associations was main
DeleteTable ==
    /\ pc = "delete"
    /\ di <= Len(TablesToDelete)
    /\ dai > Len(TablesToDelete[di].associations)
    /\ IF ~is_main
       THEN /\ calls' = Append(calls, Call("delete_route_table", TablesToDelete[di].id, 0,
                                           None, None, None, None))
            /\ live' = ProviderDeleteTable(live, TablesToDelete[di].id)
       ELSE UNCHANGED <<calls, live>>
    /\ di' = di + 1 /\ dai' = 1 /\ is_main' = FALSE
    /\ UNCHANGED <<params, env, nextId, pc, failure, output, plan, creLoop, runs>>

\* line 259: the arguments of create_tables are evaluated, gateways[0].id first
EnterCreate ==
    /\ pc = "delete"
    /\ di > Len(TablesToDelete)
    /\ IF Len(gateways) = 0 THEN Fail("IndexError")
       ELSE pc' = "create" /\ UNCHANGED failure
    /\ ci' = 1 /\ cri' = 1 /\ csi' = 1 /\ new_table' = 0
    /\ UNCHANGED <<params, env, provider, calls, output, plan, delLoop, runs>>

\* ----------------------------------------------------------- create_tables
\* line 115
CreateTable ==
    /\ pc = "create"
    /\ ci <= Len(new_tables)
    /\ new_table = 0
    /\ calls' = Append(calls, Call("create_route_table", nextId, 0, None, None, None, None))
    /\ live' = ProviderCreateTable(live, nextId)
    /\ new_table' = nextId
    /\ nextId' = nextId + 1
    /\ cri' = 1 /\ csi' = 1
    /\ UNCHANGED <<params, env, pc, failure, output, plan, delLoop, ci, runs>>

RouteTarget_gw(route, gateway_id) ==
    IF route.gw = "igw"
    THEN [gateway_id |-> gateway_id, instance_id |-> None]
    ELSE [gateway_id |-> route.gw, instance_id |-> None]

\* lines 118-122: the gateway and instance arguments of create_route
RouteTarget(route, gateway_id) ==
    IF route.gw = "igw"
    THEN [gateway_id |-> gateway_id, instance_id |-> None]
    ELSE [gateway_id |-> None, instance_id |-> route.gw]

\* lines 117-122: one declared route of the table being created
CreateRoute ==
    /\ pc = "create"
    /\ ci <= Len(new_tables)
    /\ new_table # 0
    /\ new_tables[ci].kind = "bad" \/ cri <= Len(new_tables[ci].routes)
    /\ IF new_tables[ci].kind = "bad"
       THEN Fail("TypeError") /\ UNCHANGED <<calls, live, cri>>
       ELSE LET route == new_tables[ci].routes[cri]
                target == RouteTarget(route, gateways[1].id)
            IN /\ calls' = Append(calls, Call("create_route", new_table, 0, route.dest,
                                              target.gateway_id, target.instance_id, None))
               /\ live' = ProviderCreateRoute(live, new_table, route.dest,
                                              target.gateway_id, target.instance_id)
               /\ cri' = cri + 1
               /\ UNCHANGED <<pc, failure>>
    /\ UNCHANGED <<params, env, nextId, output, plan, delLoop, ci, csi, new_table, runs>>

SubnetTarget_cidr(mapper, subnet_cidr) == subnet_cidr

\* line 125: the subnet id passed to associate_route_table
SubnetTarget(mapper, subnet_cidr) == mapper[subnet_cidr].id

\* lines 124-125: one declared subnet block, resolved through subnet_mapper
AssociateSubnet ==
    /\ pc = "create"
    /\ ci <= Len(new_tables)
    /\ new_table # 0
    /\ new_tables[ci].kind # "bad"
    /\ cri > Len(new_tables[ci].routes)
    /\ csi <= Len(new_tables[ci].subnets)
    /\ LET subnet_cidr == new_tables[ci].subnets[csi]
       IN IF subnet_cidr \notin DOMAIN subnet_mapper
          THEN Fail("KeyError") /\ UNCHANGED <<calls, live, nextId, csi>>
          ELSE /\ calls' = Append(calls, Call("associate_route_table", new_table, nextId,
                                              None, None, None,
                                              SubnetTarget(subnet_mapper, subnet_cidr)))
               /\ live' = ProviderAssociate(live, new_table, nextId,
                                            SubnetTarget(subnet_mapper, subnet_cidr))
               /\ nextId' = nextId + 1
               /\ csi' = csi + 1
               /\ UNCHANGED <<pc, failure>>
    /\ UNCHANGED <<params, env, output, plan, delLoop, ci, cri, new_table, runs>>

\* line 127: the table is complete, on to the next one
CreateNext ==
    /\ pc = "create"
    /\ ci <= Len(new_tables)
    /\ new_table # 0
    /\ new_tables[ci].kind # "bad"
    /\ cri > Len(new_tables[ci].routes)
    /\ csi > Len(new_tables[ci].subnets)
    /\ ci' = ci + 1 /\ cri' = 1 /\ csi' = 1 /\ new_table' = 0
    /\ UNCHANGED <<params, env, provider, pc, failure, calls, output, plan, delLoop, runs>>

ReportedTables_nonmain == NonMainTables(live)

\* line 261: the second, unfiltered listing of the route tables
ReportedTables == live

\* lines 261-263: list the tables again and report
Report ==
    /\ pc = "create"
    /\ ci > Len(new_tables)
    /\ calls' = Append(calls, ReadCall("get_all_route_tables"))
    /\ output' = [changed |-> changed, route_tables |-> format_response(ReportedTables),
                  reported |-> TRUE]
    /\ pc' = "done"
    /\ UNCHANGED <<params, env, provider, failure, plan, delLoop, creLoop, runs>>

\* the next statement of main() is a remote call
AtRemoteCall ==
    IF pc = "vpc" THEN ~(Truthy(vpc_name) /\ Truthy(vpc_id))
    ELSE IF pc = "delete"
    THEN IF di > Len(TablesToDelete) THEN FALSE
         ELSE IF dai <= Len(TablesToDelete[di].associations)
         THEN ~TablesToDelete[di].associations[dai].main
         ELSE ~is_main
    ELSE IF pc = "create"
    THEN IF ci > Len(new_tables) \/ new_table = 0 THEN TRUE
         ELSE IF new_tables[ci].kind = "bad" THEN FALSE
         ELSE IF cri <= Len(new_tables[ci].routes) THEN TRUE
         ELSE IF csi <= Len(new_tables[ci].subnets)
         THEN new_tables[ci].subnets[csi] \in DOMAIN subnet_mapper
         ELSE FALSE
    ELSE pc \in {"gateways", "tables", "subnets"}

\* a remote call raises; main() catches nothing, so the run aborts where it is
RemoteFailure ==
    /\ AtRemoteCall
    /\ Fail("RemoteError")
    /\ UNCHANGED <<params, env, provider, calls, output, plan, delLoop, creLoop, runs>>

\* the module is invoked again with the same parameters
Rerun ==
    /\ pc = "done"
    /\ run < MaxRuns
    /\ run' = run + 1
    /\ prevOutput' = output
    /\ pc' = "start" /\ failure' = None /\ calls' = <<>> /\ output' = NoOutput
    /\ existing_tables' = <<>> /\ subnet_mapper' = <<>>
    /\ old_tables' = <<>> /\ new_tables' = <<>> /\ matched_tables' = <<>>
    /\ ri' = 1 /\ changed' = FALSE
    /\ di' = 1 /\ dai' = 1 /\ is_main' = FALSE
    /\ ci' = 1 /\ cri' = 1 /\ csi' = 1 /\ new_table' = 0
    /\ UNCHANGED <<params, env, provider>>

Next ==
    \/ Validate \/ Connect \/ LookupVpc \/ LookupGateways
    \/ FetchTables \/ FetchSubnets
    \/ PlanStep \/ PlanDone
    \/ DeleteAssociation \/ DeleteTable \/ EnterCreate
    \/ CreateTable \/ CreateRoute \/ AssociateSubnet \/ CreateNext
    \/ Report
    \/ RemoteFailure
    \/ Rerun

Spec == Init /\ [][Next]_vars

\* ================================================================ properties
NoMutatingCall == \A k \in 1..Len(calls) : calls[k].op \notin MutatingOps

HasCall(op) == \E k \in 1..Len(calls) : calls[k].op = op

\* the calls a step adds to the log
NewCalls == IF Len(calls') > Len(calls) THEN (Len(calls) + 1)..Len(calls') ELSE {}

Perms(n) == { f \in [1..n -> 1..n] : \A a, b \in 1..n : f[a] = f[b] => a = b }

Permuted(s, f) == [k \in 1..Len(s) |-> s[f[k]]]

\* C1: a second run with the same desired state fails in nothing of its own,
\* issues no create, create-route, associate, disassociate or delete call,
\* reports changed=false and the route tables the first run reported.
C1_SecondRunIsNoOp ==
    run >= 2 =>
        /\ failure \in {None, "RemoteError"}
        /\ NoMutatingCall
        /\ pc = "done" => /\ ~output.changed
                          /\ output.route_tables = prevOutput.route_tables

\* C2: a live table carrying a main association is never in the pool of
\* tables considered for matching nor in the to-delete set, and no
\* disassociate or delete call targets it.
C2_PoolsSpareMain ==
    /\ \A k \in 1..Len(existing_tables) : ~IsMain(existing_tables[k])
    /\ \A k \in 1..Len(old_tables) : ~IsMain(old_tables[k])
    /\ \A k \in 1..Len(TablesToDelete) : ~IsMain(TablesToDelete[k])

C2_CallSparesMain(c) ==
    /\ c.op = "delete_route_table" =>
          \A k \in 1..Len(live) : live[k].id = c.table => ~IsMain(live[k])
    /\ c.op = "disassociate_route_table" =>
          \A k \in 1..Len(live) :
              (\E j \in 1..Len(live[k].associations) : live[k].associations[j].id = c.assoc)
                  => ~IsMain(live[k])

C2_MainTableExclusion ==
    /\ [](C2_PoolsSpareMain)
    /\ [][\A k \in NewCalls : C2_CallSparesMain(calls'[k])]_vars

\* a run that deleted a table and left the main table as it was
C2_Witness ==
    /\ pc = "done"
    /\ HasCall("delete_route_table") /\ HasCall("disassociate_route_table")
    /\ \E k \in 1..Len(live) : live[k] = MainTable

\* C3: changed is true exactly when to-delete or to-create is non-empty, and
\* with both empty the run issues no mutating call.
C3_ChangedIffWork ==
    /\ pc \in {"delete", "create", "done"} =>
          (changed <=> (old_tables # <<>> \/ new_tables # <<>>))
    /\ pc = "done" => (output.changed <=> (old_tables # <<>> \/ new_tables # <<>>))
    /\ (old_tables = <<>> /\ new_tables = <<>>) => NoMutatingCall

\* a completed run in which every live table was paired: nothing to do
C3_Witness ==
    /\ pc = "done" /\ run = 1
    /\ matched_tables # <<>> /\ old_tables = <<>> /\ new_tables = <<>>
    /\ ~output.changed

\* C4: after a completed run in mode present the non-main live tables are in
\* one-to-one correspondence with the desired tables, each satisfying its
\* desired table under the Table Matcher.
C4_Converged ==
    (pc = "done" /\ state = "present") =>
        LET nonmain == SelectSeq(live, LAMBDA t : ~IsMain(t))
            desired == route_tables.tables
        IN /\ Len(nonmain) = Len(desired)
           /\ \E f \in Perms(Len(desired)) :
                 \A i \in 1..Len(desired) :
                     TableMatch(nonmain[f[i]], desired[i], subnet_mapper, gateways[1]) = "yes"

\* a run that kept one table, deleted another and created a third
C4_Witness ==
    /\ pc = "done" /\ state = "present" /\ run = 1
    /\ matched_tables # <<>>
    /\ HasCall("delete_route_table") /\ HasCall("create_route_table")
    /\ HasCall("associate_route_table")

\* one live route satisfies one desired route (Route Equivalence Checker)
RouteSatisfies(route, requested_route, gateway) ==
    find_matching_route(<<route>>, requested_route, subnet_mapper, gateway) # 0

AssociationSatisfies(association, requested_subnet) ==
    find_matching_association(<<association>>, requested_subnet, subnet_mapper) > 0

\* the Table Matcher as the specification words it
TableSatisfies(table, requested_table, gateway) ==
    LET nonlocal == { j \in 1..Len(table.routes) : table.routes[j].gateway_id # "local" }
    IN /\ Len(requested_table.routes) = Cardinality(nonlocal)
       /\ \A i \in 1..Len(requested_table.routes) :
             \E j \in nonlocal : RouteSatisfies(table.routes[j], requested_table.routes[i], gateway)
       /\ Len(requested_table.subnets) = Len(table.associations)
       /\ \A i \in 1..Len(requested_table.subnets) :
             \E j \in 1..Len(table.associations) :
                 AssociationSatisfies(table.associations[j], requested_table.subnets[i])

\* the pairs the Table Matcher is applied to while planning
MatcherPairs ==
    IF pc = "plan" /\ route_tables.kind = "list" /\ Len(gateways) > 0
    THEN { <<t, d>> \in (1..Len(existing_tables)) \X (1..Len(route_tables.tables)) :
              route_tables.tables[d].kind = "spec" }
    ELSE {}

\* C5: a live table satisfies a desired table iff the route counts (local
\* route excluded) agree, every desired route has a satisfying live route,
\* the subnet and association counts agree and every desired subnet has a
\* satisfying association; the result does not depend on the order of the
\* routes, subnets or associations.
C5_TableMatcher ==
    \A p \in MatcherPairs :
        LET table == existing_tables[p[1]]
            requested_table == route_tables.tables[p[2]]
            result == TableMatch(table, requested_table, subnet_mapper, gateways[1])
        IN /\ (result = "yes") <=> TableSatisfies(table, requested_table, gateways[1])
           /\ \A f \in Perms(Len(table.routes)), g \in Perms(Len(table.associations)),
                 h \in Perms(Len(requested_table.routes)),
                 e \in Perms(Len(requested_table.subnets)) :
                 TableMatch([table EXCEPT !.routes = Permuted(@, f),
                                          !.associations = Permuted(@, g)],
                            [requested_table EXCEPT !.routes = Permuted(@, h),
                                                    !.subnets = Permuted(@, e)],
                            subnet_mapper, gateways[1]) = result

\* a table accepted although one live route alone satisfies two desired routes
C5_Witness ==
    \E p \in MatcherPairs :
        LET table == existing_tables[p[1]]
            requested_table == route_tables.tables[p[2]]
            sat(i) == { j \in 1..Len(table.routes) :
                           /\ table.routes[j].gateway_id # "local"
                           /\ RouteSatisfies(table.routes[j], requested_table.routes[i],
                                             gateways[1]) }
        IN /\ TableMatch(table, requested_table, subnet_mapper, gateways[1]) = "yes"
           /\ Len(requested_table.routes) = 2
           /\ sat(1) = sat(2) /\ Cardinality(sat(1)) = 1

\* C6: a create-route call for a desired route with gw igw carries the
\* resolved gateway's id and no instance id; for any other gw it carries the
\* literal as instance id and no gateway id.
C6_GatewayTranslation ==
    [][\A k \in NewCalls :
          calls'[k].op = "create_route" =>
              LET route == new_tables[ci].routes[cri]
              IN /\ calls'[k].table = new_table /\ calls'[k].dest = route.dest
                 /\ IF route.gw = "igw"
                    THEN calls'[k].gateway_id = gateways[1].id /\ calls'[k].instance_id = None
                    ELSE calls'[k].instance_id = route.gw /\ calls'[k].gateway_id = None]_vars

\* both kinds of route have been created, and the provider holds them
C6_Witness ==
    /\ \E k \in 1..Len(calls) :
          calls[k].op = "create_route" /\ calls[k].gateway_id = "igw1"
          /\ calls[k].instance_id = None
    /\ \E k \in 1..Len(calls) :
          calls[k].op = "create_route" /\ calls[k].instance_id = "i1"
          /\ calls[k].gateway_id = None
    /\ pc = "done"

\* C7: a run in mode absent creates no table and, once complete, has deleted
\* every non-main live table, whatever route_tables is.
C7_AbsentTearsDown ==
    state = "absent" =>
        /\ ~HasCall("create_route_table")
        /\ route_tables.kind = "none" => failure # "TypeError"
        /\ pc = "done" => \A k \in 1..Len(live) : IsMain(live[k])

ConfigurationError ==
    \/ Truthy(vpc_name) /\ Truthy(vpc_id)
    \/ vpcs # 1
    \/ Len(gateways) > 1

\* C8: with both selectors given, or not exactly one network found, or more
\* than one gateway found, the run never gets past the lookups, never
\* completes, and issues no mutating call.
C8_ConfigErrorsBeforeMutation ==
    ConfigurationError =>
        /\ pc \in {"start", "connect", "vpc", "gateways", "failed"}
        /\ NoMutatingCall
        /\ existing_tables = <<>>

\* the gateway lookup returned two gateways and the run failed on it
C8_Witness ==
    /\ Len(gateways) > 1 /\ vpcs = 1 /\ ~(Truthy(vpc_name) /\ Truthy(vpc_id))
    /\ pc = "failed" /\ failure = "NameError"
    /\ Len(live) > 1

\* C9: when the gateway lookup returns no gateway the run fails without
\* having issued any mutating call.
C9_NoGatewayNoMutation ==
    Len(gateways) = 0 => (pc # "done" /\ NoMutatingCall)

MalformedDesiredState ==
    \/ route_tables.kind \in {"none", "notlist"}
    \/ \E k \in 1..Len(route_tables.tables) : route_tables.tables[k].kind = "bad"

\* C10: a malformed route_tables fails the run before any remote call.
C10_MalformedRejectedFirst ==
    MalformedDesiredState => (pc # "done" /\ calls = <<>>)

\* a desired table naming a subnet block that no subnet of the network has
Unresolved(requested_table) ==
    /\ requested_table.kind = "spec"
    /\ \E j \in 1..Len(requested_table.subnets) :
          \A k \in 1..Len(VpcSubnets) : VpcSubnets[k].cidr_block # requested_table.subnets[j]

HasUnresolved ==
    /\ route_tables.kind = "list"
    /\ \E i \in 1..Len(route_tables.tables) : Unresolved(route_tables.tables[i])

\* C11: when a desired table lists a subnet block absent from the network,
\* no live table is matched to it (it goes to the to-create list) and the
\* run never reports success.
C11_UnresolvedSubnetFails ==
    HasUnresolved =>
        /\ pc # "done"
        /\ ~output.reported
        /\ \A p \in MatcherPairs :
              Unresolved(route_tables.tables[p[2]]) =>
                  TableMatch(existing_tables[p[1]], route_tables.tables[p[2]],
                             subnet_mapper, gateways[1]) # "yes"
        /\ \A i \in 1..(ri - 1) :
              Unresolved(route_tables.tables[i]) =>
                  \E k \in 1..Len(new_tables) : new_tables[k] = route_tables.tables[i]

\* the run failed on the subnet lookup although a live table had the routes
\* and the number of associations of the desired table
C11_Witness ==
    /\ HasUnresolved
    /\ pc = "failed" /\ failure = "KeyError"
    /\ \E t \in 1..Len(existing_tables), i \in 1..Len(route_tables.tables) :
          /\ Unresolved(route_tables.tables[i])
          /\ Len(NonLocalRoutes(existing_tables[t])) = Len(route_tables.tables[i].routes)
          /\ RoutesMatchFrom(NonLocalRoutes(existing_tables[t]),
                             route_tables.tables[i].routes, subnet_mapper, gateways[1], 1)
          /\ Len(existing_tables[t].associations) = Len(route_tables.tables[i].subnets)

\* C12: no live table is paired with two desired tables, and planning runs
\* to completion for every desired list: the unpaired live tables are the
\* to-delete list and the unpaired desired tables the to-create list.
C12_PairingIsInjective ==
    /\ \A a, b \in 1..Len(matched_tables) :
          matched_tables[a].id = matched_tables[b].id => a = b
    /\ failure # "ValueError"
    /\ pc \in {"delete", "create", "done"} =>
          /\ Len(old_tables) + Len(matched_tables) = Len(existing_tables)
          /\ Len(new_tables) + Len(matched_tables) = Len(route_tables.tables)

\* the Route Equivalence Checker is being applied (planning, line 248)
Matching == pc = "plan" /\ route_tables.kind = "list" /\ Len(gateways) > 0

\* C13: a live route satisfies a desired route iff (a) if it has a gateway
\* id, the desired gw is igw and the id is the resolved gateway's; (b)
\* otherwise, if it has an instance id, that id is the desired gw literal;
\* (c) if it has a destination CIDR, it equals the desired dest.  With both
\* live attributes set, (a) alone decides between (a) and (b).
C13_RouteEquivalence ==
    Matching =>
        \A t \in 1..Len(existing_tables), d \in 1..Len(route_tables.tables) :
            \A j \in 1..Len(existing_tables[t].routes),
               i \in 1..Len(route_tables.tables[d].routes) :
                LET route == existing_tables[t].routes[j]
                    requested_route == route_tables.tables[d].routes[i]
                    a == Truthy(route.gateway_id) =>
                             (requested_route.gw = "igw" /\ route.gateway_id = gateways[1].id)
                    b == (~Truthy(route.gateway_id) /\ Truthy(route.instance_id)) =>
                             route.instance_id = requested_route.gw
                    c == Truthy(route.destination_cidr_block) =>
                             route.destination_cidr_block = requested_route.dest
                IN RouteSatisfies(route, requested_route, gateways[1]) <=> (a /\ b /\ c)

\* ------------------------------------------- delete_tables on any table list
\* delete_tables(vpc_conn, tables) entered with any sub-list of the live
\* tables, the main table included
InitDelete ==
    /\ state = "present" /\ route_tables = ListParam(<<>>)
    /\ vpc_id = "vpc-1" /\ vpc_name = None /\ region = TRUE
    /\ vpcs = 1 /\ gateways = <<Gateway("igw1")>>
    /\ live \in LiveStates(MaxLive)
    /\ nextId = Len(live) + 1
    /\ existing_tables = live
    /\ old_tables \in { SelectSeq(live, LAMBDA t : t.id \in S) :
                           S \in SUBSET { live[k].id : k \in 1..Len(live) } }
    /\ subnet_mapper = BuildSubnetMapper(VpcSubnets)
    /\ new_tables = <<>> /\ matched_tables = <<>> /\ ri = 1
    /\ changed = Changed(old_tables, new_tables)
    /\ pc = "delete" /\ failure = None /\ calls = <<>> /\ output = NoOutput
    /\ di = 1 /\ dai = 1 /\ is_main = FALSE
    /\ ci = 1 /\ cri = 1 /\ csi = 1 /\ new_table = 0
    /\ run = 1 /\ prevOutput = NoOutput

NextDelete == DeleteAssociation \/ DeleteTable \/ RemoteFailure

SpecDelete == InitDelete /\ [][NextDelete]_vars

\* C14: for a table handed to the deletion path whose associations include
\* a main one, neither a delete call nor a disassociate call for any of its
\* associations is issued, and the table is left alive unchanged.
C14_MainMarkerSkip ==
    \A k \in 1..Len(TablesToDelete) :
        IsMain(TablesToDelete[k]) =>
            /\ \E m \in 1..Len(live) : live[m] = TablesToDelete[k]
            /\ \A c \in 1..Len(calls) :
                  /\ calls[c].op = "delete_route_table" =>
                        calls[c].table # TablesToDelete[k].id
                  /\ calls[c].op = "disassociate_route_table" =>
                        \A j \in 1..Len(TablesToDelete[k].associations) :
                            TablesToDelete[k].associations[j].id # calls[c].assoc

\* positions in the call log of the calls with the given operation and target
CallsAt(op, table, assoc) ==
    { c \in 1..Len(calls) :
         calls[c].op = op /\ calls[c].table = table /\ calls[c].assoc = assoc }

\* C15: for every table of the to-delete list that delete_tables is done
\* with, one disassociate call was issued per association, all of them
\* before the single delete call for the table; with an empty desired list
\* the to-delete list is every non-main live table and changed is true
\* exactly when there is one.
C15_DisassociateThenDelete ==
    /\ \A k \in 1..(di - 1) :
          LET table == TablesToDelete[k]
              deletes == CallsAt("delete_route_table", table.id, 0)
          IN /\ Cardinality(deletes) = 1
             /\ \A j \in 1..Len(table.associations) :
                   LET dis == CallsAt("disassociate_route_table", 0, table.associations[j].id)
                   IN /\ Cardinality(dis) = 1
                      /\ \A a \in dis, b \in deletes : a < b
             /\ \A m \in 1..Len(live) : live[m].id # table.id
    /\ (route_tables = ListParam(<<>>) /\ pc \in {"delete", "create", "done"}) =>
          /\ TablesToDelete = existing_tables
          /\ changed <=> (existing_tables # <<>>)
    /\ (route_tables = ListParam(<<>>) /\ pc = "done") =>
          /\ \A m \in 1..Len(live) : IsMain(live[m])
          /\ output.changed <=> (existing_tables # <<>>)

\* an empty desired list against a table with an association: the table was
\* disassociated, deleted, and the run reported changed
C15_Witness ==
    /\ route_tables = ListParam(<<>>)
    /\ pc = "done" /\ output.changed
    /\ \E k \in 1..Len(TablesToDelete) :
          /\ TablesToDelete[k].associations # <<>>
          /\ CallsAt("delete_route_table", TablesToDelete[k].id, 0) # {}

\* the ids the provider gave to the tables created so far, in creation order
CreatedIds ==
    LET creates == SelectSeq(calls, LAMBDA c : c.op = "create_route_table")
    IN [k \in 1..Len(creates) |-> creates[k].table]

\* the creation calls issued for one table, in order, without association ids
CreationCalls(id) ==
    LET mine == SelectSeq(calls, LAMBDA c :
                    /\ c.op \in {"create_route_table", "create_route", "associate_route_table"}
                    /\ c.table = id)
    IN [k \in 1..Len(mine) |-> [mine[k] EXCEPT !.assoc = 0]]

\* the requested subnet blocks up to the first one no subnet of the network has
Resolvable(subnets) ==
    LET bad == { j \in 1..Len(subnets) :
                    \A k \in 1..Len(VpcSubnets) : VpcSubnets[k].cidr_block # subnets[j] }
    IN IF bad = {} THEN subnets
       ELSE SubSeq(subnets, 1, (CHOOSE j \in bad : \A m \in bad : j <= m) - 1)

SubnetIndexOf(cidr) ==
    (CHOOSE k \in 1..Len(VpcSubnets) : VpcSubnets[k].cidr_block = cidr)

\* what create_tables is to issue for a table: the table, its routes in
\* order, then its subnets in order
CreationPlan(id, requested_table) ==
    <<Call("create_route_table", id, 0, None, None, None, None)>>
    \o [j \in 1..Len(requested_table.routes) |->
           Call("create_route", id, 0, requested_table.routes[j].dest,
                IF requested_table.routes[j].gw = "igw" THEN gateways[1].id ELSE None,
                IF requested_table.routes[j].gw = "igw" THEN None
                ELSE requested_table.routes[j].gw,
                None)]
    \o [j \in 1..Len(Resolvable(requested_table.subnets)) |->
           Call("associate_route_table", id, 0, None, None, None,
                VpcSubnets[SubnetIndexOf(requested_table.subnets[j])].id)]

IsPrefix(s, t) == Len(s) <= Len(t) /\ SubSeq(t, 1, Len(s)) = s

\* C16: for each table of the to-create list, one create-table call comes
\* first, then one create-route call per declared route, then one associate
\* call per declared subnet block with the id the block resolves to.
C16_CreateRoutesThenAssociate ==
    /\ Len(CreatedIds) <= Len(new_tables)
    /\ \A k \in 1..Len(CreatedIds) :
          /\ IsPrefix(CreationCalls(CreatedIds[k]), CreationPlan(CreatedIds[k], new_tables[k]))
          /\ k < ci => /\ new_tables[k].subnets = Resolvable(new_tables[k].subnets)
                       /\ CreationCalls(CreatedIds[k])
                              = CreationPlan(CreatedIds[k], new_tables[k])
    /\ pc = "done" => Len(CreatedIds) = Len(new_tables)

\* a table with a route and a subnet has been created in full, and another
\* table after it
C16_Witness ==
    /\ pc = "done" /\ Len(CreatedIds) = 2
    /\ \E k \in 1..Len(new_tables) :
          /\ new_tables[k].routes # <<>> /\ new_tables[k].subnets # <<>>
          /\ Len(CreationCalls(CreatedIds[k])) = 3

Listings == { c \in 1..Len(calls) : calls[c].op = "get_all_route_tables" }

Mutations == { c \in 1..Len(calls) : calls[c].op \in MutatingOps }

\* C17: the live tables are listed once before planning, planning issues no
\* mutating call, every disassociate and delete call precedes every create
\* call, and the tables are listed once more after all mutations; that
\* unfiltered listing is what a successful run reports.
C17_PhaseOrder ==
    /\ pc \in {"subnets", "plan"} => (Cardinality(Listings) = 1 /\ Mutations = {})
    /\ pc \in {"delete", "create"} => Cardinality(Listings) = 1
    /\ \A l \in Listings, m \in Mutations : l < m \/ (pc = "done" /\ l = Len(calls))
    /\ \A a, b \in Mutations :
          ( /\ calls[a].op \in {"disassociate_route_table", "delete_route_table"}
            /\ calls[b].op \in {"create_route_table", "create_route", "associate_route_table"} )
              => a < b
    /\ pc = "done" =>
          /\ Cardinality(Listings) = 2
          /\ Len(calls) \in Listings
          /\ output.reported
          /\ output.route_tables = format_response(live)

\* a run with deletions and creations has reported the main table too
C17_Witness ==
    /\ pc = "done" /\ matched_tables = <<>>
    /\ \E a, b \in Mutations :
          calls[a].op = "delete_route_table" /\ calls[b].op = "create_route_table"
    /\ \E k \in 1..Len(output.route_tables) :
          \E j \in 1..Len(output.route_tables[k].associations) :
              output.route_tables[k].associations[j].is_main

\* C18: a live table the Planner paired with a desired table is the target
\* of no disassociate, delete, create-route or associate call of the run,
\* and the reported final state shows it as it was listed at the start.
C18_MatchedUntouched ==
    \A k \in 1..Len(matched_tables) :
        LET table == matched_tables[k]
        IN /\ \A c \in 1..Len(calls) :
                 /\ calls[c].op \in {"delete_route_table", "create_route",
                                     "associate_route_table"} => calls[c].table # table.id
                 /\ calls[c].op = "disassociate_route_table" =>
                       \A j \in 1..Len(table.associations) :
                           table.associations[j].id # calls[c].assoc
           /\ pc \in {"delete", "create", "done"} =>
                 \E m \in 1..Len(live) : live[m] = table
           /\ pc = "done" =>
                 \E m \in 1..Len(output.route_tables) :
                     output.route_tables[m] = format_response(<<table>>)[1]

\* a paired table with an association came through a run that disassociated
\* and deleted another table and created a third
C18_Witness ==
    /\ pc = "done"
    /\ \E k \in 1..Len(matched_tables) : matched_tables[k].associations # <<>>
    /\ HasCall("disassociate_route_table") /\ HasCall("delete_route_table")
    /\ HasCall("create_route")

\* C19: when the run fails on a subnet block that does not resolve, every
\* to-delete table has already been disassociated and deleted, the table
\* being created exists with all of its declared routes and stays, and no
\* later table of the to-create list has been created.
C19_PartialApplication ==
    failure = "KeyError" =>
        /\ pc = "failed" /\ ~output.reported
        /\ di > Len(TablesToDelete)
        /\ \A k \in 1..Len(TablesToDelete) :
              /\ CallsAt("delete_route_table", TablesToDelete[k].id, 0) # {}
              /\ \A j \in 1..Len(TablesToDelete[k].associations) :
                    CallsAt("disassociate_route_table", 0,
                            TablesToDelete[k].associations[j].id) # {}
              /\ \A m \in 1..Len(live) : live[m].id # TablesToDelete[k].id
        /\ ci <= Len(new_tables) /\ Unresolved(new_tables[ci])
        /\ \E m \in 1..Len(live) :
              /\ live[m].id = new_table
              /\ Len(live[m].routes) = Len(new_tables[ci].routes) + 1
              /\ \A j \in 1..Len(new_tables[ci].routes) :
                    live[m].routes[j + 1].destination_cidr_block = new_tables[ci].routes[j].dest
        /\ Len(CreatedIds) = ci /\ CreatedIds[ci] = new_table

\* the run failed on the subnet after deleting a table and creating the
\* routes of the new one, with another table still to create
C19_Witness ==
    /\ failure = "KeyError"
    /\ HasCall("delete_route_table") /\ HasCall("create_route")
    /\ ci < Len(new_tables)

Untyped(route) ==
    /\ route.gateway_id # "local"
    /\ ~Truthy(route.gateway_id) /\ ~Truthy(route.instance_id)

\* a live table whose non-local routes are all untyped, against a desired
\* table with the same destinations and the subnets of its associations
UntypedTwin(table, requested_table) ==
    /\ requested_table.kind = "spec"
    /\ \A j \in 1..Len(table.routes) :
          table.routes[j].gateway_id = "local" \/ Untyped(table.routes[j])
    /\ Cardinality({ j \in 1..Len(table.routes) : Untyped(table.routes[j]) })
           = Len(requested_table.routes)
    /\ \A i \in 1..Len(requested_table.routes) :
          \E j \in 1..Len(table.routes) :
              /\ Untyped(table.routes[j])
              /\ table.routes[j].destination_cidr_block = requested_table.routes[i].dest
    /\ Len(table.associations) = Len(requested_table.subnets)
    /\ \A i \in 1..Len(requested_table.subnets) :
          \E j \in 1..Len(table.associations), k \in 1..Len(VpcSubnets) :
              /\ VpcSubnets[k].id = table.associations[j].subnet_id
              /\ VpcSubnets[k].cidr_block = requested_table.subnets[i]

\* C20: a live non-local route with neither gateway id nor instance id
\* satisfies every desired route with its destination, whatever the gw; a
\* live table made of such routes is paired with a desired table of the
\* same destinations, which is then not put on the to-create list.
C20_UntypedRoutesMatchAnyGw ==
    Matching =>
        \A t \in 1..Len(existing_tables), d \in 1..Len(route_tables.tables) :
            /\ \A j \in 1..Len(existing_tables[t].routes),
                  i \in 1..Len(route_tables.tables[d].routes) :
                  ( /\ Untyped(existing_tables[t].routes[j])
                    /\ existing_tables[t].routes[j].destination_cidr_block
                           = route_tables.tables[d].routes[i].dest )
                      => RouteSatisfies(existing_tables[t].routes[j],
                                        route_tables.tables[d].routes[i], gateways[1])
            /\ UntypedTwin(existing_tables[t], route_tables.tables[d]) =>
                  /\ TableMatch(existing_tables[t], route_tables.tables[d],
                                subnet_mapper, gateways[1]) = "yes"
                  /\ find_matching_table(MatchPool, route_tables.tables[d],
                                         subnet_mapper, gateways[1]) > 0
                  /\ d < ri => \E k \in 1..Len(matched_tables) :
                                  TableMatch(matched_tables[k], route_tables.tables[d],
                                             subnet_mapper, gateways[1]) = "yes"

\* an untyped live route is accepted for gw igw and for a literal gw, and
\* its table has been paired with a desired table
C20_Witness ==
    /\ Matching
    /\ \E t \in 1..Len(existing_tables), d, e \in 1..Len(route_tables.tables) :
          /\ UntypedTwin(existing_tables[t], route_tables.tables[d])
          /\ d < ri
          /\ \E k \in 1..Len(matched_tables) : matched_tables[k] = existing_tables[t]
          /\ route_tables.tables[d].routes[1].gw = "igw"
          /\ route_tables.tables[e].routes # <<>>
          /\ route_tables.tables[e].routes[1].gw = "i1"
          /\ RouteSatisfies(existing_tables[t].routes[2], route_tables.tables[e].routes[1],
                            gateways[1])

====
